---- MODULE Spec2Model ----
(***************************************************************************)
(* WipeCore: the whole-device wipe flow (src/src/win.rs) and the wipe      *)
(* engine (src/src/wipe.rs) as a state machine.                            *)
(*                                                                         *)
(* Text is a sequence of one-character strings.  A byte is a number in     *)
(* 0..255.  The observable history of a run (messages printed, lines read, *)
(* system calls issued on a target) is kept in the variable trace.         *)
(***************************************************************************)
EXTENDS Integers, Sequences, FiniteSets

(***************************************************************************)
(* Bounds of the model.                                                    *)
(***************************************************************************)
\* chunk size of the engine, scaled down from the 8 MiB of wipe.rs:52
CHUNK == 2
\* largest target size (bytes) a device reports or a caller passes
MaxSize == 3
\* largest pass count a direct caller of wipe_file requests
MaxPasses == 3
\* largest pass count requested of the whole-device flow
MaxFlowPasses == 1

\* run_disk_wipe_flow: const MAX_INDEX
MAX_INDEX == 16

\* device indices at which the modelled machine may have a device
Probe == {0, 1, 12}
\* values given to --system-disk (5 is a device that does not exist)
Overrides == {1, 5}
\* bytes a target may hold before a wipe
OldBytes == {170, 255}
\* bytes the random generator may produce
RandBytes == {0, 165}

Modes == {"Zeros", "Random", "Secureflip"}

\* Option<T>: None is the empty sequence, Some(x) is <<x>>
NoneOpt == <<>>
Some(x) == <<x>>
IsSome(o) == o # <<>>
Unwrap(o) == o[1]

(***************************************************************************)
(* Text: decimal formatting, trimming, parsing.                            *)
(***************************************************************************)
DigitChar == <<"0", "1", "2", "3", "4", "5", "6", "7", "8", "9">>

IsDigit(c) == \E k \in 1..10 : DigitChar[k] = c

DigitVal(c) == (CHOOSE k \in 1..10 : DigitChar[k] = c) - 1

\* char::is_whitespace, on the characters of the model
IsWhite(c) == c \in {" ", "\t", "\r", "\n"}

RECURSIVE Decimal(_)
\* format!("{}", n) of a u32
Decimal(n) ==
    IF n < 10 THEN <<DigitChar[n + 1]>>
    ELSE Decimal(n \div 10) \o <<DigitChar[(n % 10) + 1]>>

RECURSIVE TrimStart(_)
TrimStart(s) ==
    IF s # <<>> /\ IsWhite(Head(s)) THEN TrimStart(Tail(s)) ELSE s

RECURSIVE TrimEnd(_)
TrimEnd(s) ==
    IF s # <<>> /\ IsWhite(s[Len(s)]) THEN TrimEnd(SubSeq(s, 1, Len(s) - 1))
    ELSE s

\* no trimming at all
TrimNothing(s) == s

\* str::trim
Trim(s) == TrimEnd(TrimStart(s))

RECURSIVE DigitsValue(_)
DigitsValue(s) ==
    IF s = <<>> THEN 0
    ELSE 10 * DigitsValue(SubSeq(s, 1, Len(s) - 1)) + DigitVal(s[Len(s)])

\* str::parse::<u32>, Ok(n) as Some(n), Err as None: an optional leading '+', then one or more decimal
\* digits.  (The inputs of the model have at most four digits, so the
\* overflow error of the parser is out of their range.)
ParseU32(s) ==
    IF s = <<>> THEN NoneOpt
    ELSE LET body == IF Head(s) = "+" THEN Tail(s) ELSE s
         IN  IF body = <<>> THEN NoneOpt
             ELSE IF \E k \in 1..Len(body) : ~IsDigit(body[k]) THEN NoneOpt
             ELSE Some(DigitsValue(body))

\* the line as the operator typed it: the line read without its terminator
Typed(line) ==
    LET a == IF line # <<>> /\ line[Len(line)] = "\n"
             THEN SubSeq(line, 1, Len(line) - 1) ELSE line
    IN  IF a # <<>> /\ a[Len(a)] = "\r" THEN SubSeq(a, 1, Len(a) - 1) ELSE a

WipeDiskPrefix == <<"W", "I", "P", "E", "-", "D", "I", "S", "K", "-">>

\* format!("WIPE-DISK-{}", selected.index)
Phrase(index) == WipeDiskPrefix \o Decimal(index)

\* format!(r"\\.\PhysicalDrive{}", index); the fixed prefix is one token
DevPath(index) == <<"\\\\.\\PhysicalDrive">> \o Decimal(index)

\* the device the operating system opens for a path built by DevPath
OsDevice(path) == DigitsValue(Tail(path))


(***************************************************************************)
(* Inputs: what the operator types and what the operating system answers.  *)
(***************************************************************************)
\* a line as read_line returns it from a Windows console
Line(text) == text \o <<"\r", "\n">>

SelectTexts ==
    { <<>>, <<" ">>, <<"0">>, <<"1">>, <<"1", "2">>, <<" ", "1", " ">>,
      <<"+", "5">>, <<"-", "1">>, <<"x">>, <<"5">> }

\* lines the operator may enter at the selection prompt (<<>> is end of input)
SelectLines == {Line(t) : t \in SelectTexts} \cup {<<>>}

LowerPhrase(index) ==
    <<"w", "i", "p", "e", "-", "d", "i", "s", "k", "-">> \o Decimal(index)

ConfirmTexts(index) ==
    {Phrase(j) : j \in Probe}
        \cup { LowerPhrase(index),
               SubSeq(Phrase(index), 1, Len(Phrase(index)) - 1),
               Phrase(index) \o <<"0">>,
               Phrase(index) \o <<" ">>,
               <<"Y", "E", "S">>,
               <<>> }

\* lines the operator may enter at the confirmation prompt
ConfirmLines(index) == {Line(t) : t \in ConfirmTexts(index)}

\* sizes of the devices of the machine: one a whole number of chunks, one not
DevSizes == {MaxSize - 1, MaxSize}

\* answers of the length query of device i when it opened (device 1 comes
\* in both sizes, the others in the larger one)
Lengths(i) == {-1, 0} \cup (IF i = 1 THEN DevSizes ELSE {MaxSize})

\* what CreateFileW / DeviceIoControl answer for \\.\PhysicalDrive<i>
\* <<"nodev">>: the open fails; <<"ioctlerr">>: the length query fails;
\* <<"len", n>>: the length query reports n
DevOutcomes(i) ==
    IF i \in Probe
    THEN {<<"nodev">>, <<"ioctlerr">>} \cup {<<"len", n>> : n \in Lengths(i)}
    ELSE {<<"nodev">>}

\* devices the boot volume may lie on
BootDisks == {0, 12}

\* what CreateFileW / DeviceIoControl answer for the boot volume
\* <<"extents", n, d>>: NumberOfDiskExtents = n, Extents[0].DiskNumber = d
VolOutcomes ==
    {<<"openfail">>, <<"ioctlerr">>}
        \cup {<<"extents", n, d>> : n \in {0, 1}, d \in BootDisks}

\* contents a target of n bytes may hold before the wipe
Contents(n) == [1..n -> OldBytes]

\* the old byte of a device
DevByte == CHOOSE b \in OldBytes : \A c \in OldBytes : b <= c

\* contents of a device of n bytes before the wipe (the old byte throughout)
DevContents(n) == {[k \in 1..n |-> DevByte]}

(***************************************************************************)
(* State.                                                                  *)
(***************************************************************************)
VARIABLES
    pc,           \* position in run_disk_wipe_flow, or "harness" / "idle"
    mode,         \* run_disk_wipe_flow: mode
    passes,       \* run_disk_wipe_flow: passes
    system_disk,  \* run_disk_wipe_flow: system_disk
    i,            \* run_disk_wipe_flow: enumeration index
    disks,        \* run_disk_wipe_flow: Vec<DiskInfo>
    non_system,   \* run_disk_wipe_flow: non_system (empty before the filter)
    selected,     \* run_disk_wipe_flow: selected (None before the selection)
    input2,       \* run_disk_wipe_flow: the confirmation line read
    result,       \* what the operation returned: None, "Ok", "Err"
    probe,        \* enumeration loop body: what the open and the length query answered
    max_index,    \* list_disks: max_index
    any,          \* list_disks: any
    handles,      \* handles the process holds open
    st,           \* position in wipe_file
    w,            \* locals of wipe_file
    target,       \* the bytes of the target opened for read-write
    trace         \* messages printed, lines read, system calls issued

flowVars == <<pc, mode, passes, system_disk, i, disks, non_system, selected,
              input2, result, probe, max_index, any>>
engVars == <<st, w, target>>
listVars == <<max_index, any>>
vars == <<pc, mode, passes, system_disk, i, disks, non_system, selected,
          input2, result, probe, max_index, any, handles, st, w, target, trace>>

Msg(tag) == <<"print", tag>>

NoLocals ==
    [size |-> 0, mode |-> "Zeros", passes |-> 0, requested |-> 0, pass |-> 0,
     written |-> 0, cursor |-> 0, buf |-> [k \in 1..CHUNK |-> 0], dev |-> NoneOpt,
     since |-> 0, elapsed |-> 0]

(***************************************************************************)
(* System-disk guard.                                                      *)
(***************************************************************************)
\* detect_system_disk
DetectSystemDisk(vol) ==
    IF vol[1] = "openfail" THEN NoneOpt
    ELSE IF vol[1] = "ioctlerr" THEN NoneOpt
    ELSE IF vol[2] = 0 THEN NoneOpt
    ELSE Some(vol[3])

\* CloseHandle(handle)
CloseHandle(hs, h) == hs \ {h}

\* the handle of the boot volume
VolHandle == <<"vol">>

\* the handle of \\.\PhysicalDrive<index> opened for reading
DevHandle(index) == <<"dev", index>>

\* the handles open when detect_system_disk returns
DetectHandles(hs, vol) ==
    IF vol[1] = "openfail" THEN hs
    ELSE CloseHandle(hs \cup {VolHandle}, VolHandle)

\* a resolution that never looks at the override
ResolveIgnoresOverride(arg, vol) ==
    IF IsSome(DetectSystemDisk(vol)) THEN Unwrap(DetectSystemDisk(vol)) ELSE 0

\* the match on system_disk_arg
ResolveSystemDisk(arg, vol) ==
    IF IsSome(arg) THEN Unwrap(arg)
    ELSE IF IsSome(DetectSystemDisk(vol)) THEN Unwrap(DetectSystemDisk(vol))
    ELSE 0

ResolveMessage(arg, vol) ==
    IF IsSome(arg) THEN "user-specified system disk"
    ELSE IF IsSome(DetectSystemDisk(vol)) THEN "auto-detected system disk"
    ELSE "defaulting to PhysicalDrive0"

InitVars ==
    /\ mode = "Zeros"
    /\ passes = 0
    /\ system_disk = 0
    /\ i = 0
    /\ disks = <<>>
    /\ non_system = <<>>
    /\ selected = NoneOpt
    /\ input2 = <<>>
    /\ result = "None"
    /\ probe = NoneOpt
    /\ max_index = 0
    /\ any = FALSE
    /\ handles = {}
    /\ st = "Idle"
    /\ w = NoLocals
    /\ target = <<>>
    /\ trace = <<>>

Init == pc = "idle" /\ InitVars

(***************************************************************************)
(* run_disk_wipe_flow.                                                     *)
(***************************************************************************)
\* entry: resolve the system disk, print the header
FlowEnter ==
    /\ pc = "idle"
    /\ \E m \in Modes, p \in 1..MaxFlowPasses,
          arg \in {Some(n) : n \in Overrides} \cup {NoneOpt}, vol \in VolOutcomes :
          /\ IsSome(arg) => vol = <<"openfail">>   \* detection does not run
          /\ mode' = m
          /\ passes' = p
          /\ system_disk' = ResolveSystemDisk(arg, vol)
          /\ trace' = trace \o <<Msg(ResolveMessage(arg, vol))>>
          /\ handles' = IF IsSome(arg) THEN handles ELSE DetectHandles(handles, vol)
    /\ i' = 0
    /\ disks' = <<>>
    /\ pc' = "enum"
    /\ UNCHANGED <<non_system, selected, input2, result, probe, listVars, st, w, target>>

\* the DiskInfo pushed for an index that opened and reported size > 0
DiskInfo(index, size) ==
    [index |-> index, size_bytes |-> size, is_system |-> (index = system_disk)]

\* a loop body that drops negative lengths only
EnumBodyKeepsZero(index, outcome) ==
    IF outcome[1] = "nodev" THEN disks
    ELSE IF outcome[1] = "ioctlerr" THEN disks
    ELSE IF outcome[2] < 0 THEN disks
    ELSE Append(disks, DiskInfo(index, outcome[2]))

\* the records the loop body leaves in disks for one index
EnumBody(index, outcome) ==
    IF outcome[1] = "nodev" THEN disks
    ELSE IF outcome[1] = "ioctlerr" THEN disks
    ELSE IF outcome[2] <= 0 THEN disks
    ELSE Append(disks, DiskInfo(index, outcome[2]))

\* the handles open at the end of one iteration of an enumeration loop
EnumHandles(hs, index, outcome) ==
    IF outcome[1] = "nodev" THEN hs
    ELSE CloseHandle(hs \cup {DevHandle(index)}, DevHandle(index))

\* one iteration of for i in 0..MAX_INDEX
EnumStep ==
    /\ pc = "enum"
    /\ i < MAX_INDEX
    /\ \E outcome \in DevOutcomes(i) :
          /\ probe' = outcome
          /\ handles' = EnumHandles(handles, i, outcome)
          /\ disks' = EnumBody(i, outcome)
          /\ trace' = IF outcome[1] = "ioctlerr"
                      THEN trace \o <<Msg("failed to get size")>>
                      ELSE trace
    /\ i' = i + 1
    /\ UNCHANGED <<pc, mode, passes, system_disk, non_system, selected, input2,
                   result, listVars, st, w, target>>

\* a filter that keeps every disk
NonSystemKeepsAll(ds) == ds

\* disks.iter().filter(|d| !d.is_system)
NonSystem(ds) == SelectSeq(ds, LAMBDA d : ~d.is_system)

Indices(ds) == {ds[k].index : k \in 1..Len(ds)}

\* a list that is never taken for empty
IsEmptyNever(ds) == FALSE

\* Vec::is_empty
IsEmpty(ds) == ds = <<>>

\* a list without the protected marker
MarkNothing(d) == FALSE

\* mark: " (SYSTEM DISK - PROTECTED)" on a record, or nothing
Mark(d) == d.is_system

\* the lines printed under "Available disks:", one for each record
Shown(ds) == [k \in 1..Len(ds) |-> <<"shown", ds[k].index, ds[k].size_bytes, Mark(ds[k])>>]

\* after the loop: the two emptiness checks, the list and the first prompt
EnumDone ==
    /\ pc = "enum"
    /\ i = MAX_INDEX
    /\ \/ /\ IsEmpty(disks)
          /\ result' = "Err"
          /\ pc' = "ret"
          /\ UNCHANGED <<trace, non_system>>
       \/ /\ ~IsEmpty(disks)
          /\ IsEmpty(NonSystem(disks))
          /\ non_system' = NonSystem(disks)
          /\ result' = "Err"
          /\ pc' = "ret"
          /\ trace' = trace \o <<Msg("Available disks")>> \o Shown(disks)
       \/ /\ ~IsEmpty(disks)
          /\ ~IsEmpty(NonSystem(disks))
          /\ non_system' = NonSystem(disks)
          /\ \E flushed \in BOOLEAN :
                IF flushed
                THEN /\ pc' = "select"
                     /\ UNCHANGED result
                ELSE /\ pc' = "ret"
                     /\ result' = "Err"
          /\ trace' = trace \o <<Msg("Available disks")>> \o Shown(disks)
                             \o <<Msg("Enter the disk index")>>
    /\ probe' = NoneOpt      \* the locals of the loop body are gone
    /\ UNCHANGED <<mode, passes, system_disk, i, disks, selected, input2,
                   listVars, handles, st, w, target>>

\* a lookup that falls back to the first record of the list
FindOrFirst(ds, idx) ==
    IF \E k \in 1..Len(ds) : ds[k].index = idx
    THEN Some(ds[CHOOSE k \in 1..Len(ds) : ds[k].index = idx])
    ELSE IF ds # <<>> THEN Some(ds[1])
    ELSE NoneOpt

\* non_system.iter().find(|d| d.index == idx)
Find(ds, idx) ==
    IF \E k \in 1..Len(ds) : ds[k].index = idx
    THEN Some(ds[CHOOSE k \in 1..Len(ds) :
                     /\ ds[k].index = idx
                     /\ \A j \in 1..(k - 1) : ds[j].index # idx])
    ELSE NoneOpt

\* read the selection, validate it, ask for the confirmation phrase
SelectRead ==
    /\ pc = "select"
    /\ \E line \in SelectLines, readOk \in BOOLEAN, flushed \in BOOLEAN :
          LET trimmed == Trim(line)
              idx == ParseU32(trimmed)
              found == IF idx = NoneOpt THEN NoneOpt
                       ELSE Find(non_system, Unwrap(idx))
              read == <<"read", "select", line>>
          IN  IF ~readOk
              THEN /\ result' = "Err"
                   /\ pc' = "ret"
                   /\ trace' = trace
                   /\ UNCHANGED selected
              ELSE IF trimmed = <<>>
              THEN /\ result' = "Ok"
                   /\ pc' = "ret"
                   /\ trace' = trace \o <<read, Msg("Aborted by user.")>>
                   /\ UNCHANGED selected
              ELSE IF idx = NoneOpt
              THEN /\ result' = "Err"
                   /\ pc' = "ret"
                   /\ trace' = trace \o <<read>>
                   /\ UNCHANGED selected
              ELSE IF found = NoneOpt
              THEN /\ result' = "Err"
                   /\ pc' = "ret"
                   /\ trace' = trace \o <<read>>
                   /\ UNCHANGED selected
              ELSE /\ selected' = found
                   /\ trace' = trace \o <<read, Msg("You selected"),
                                          <<"ask", Phrase(Unwrap(found).index)>>>>
                   /\ IF flushed
                      THEN pc' = "confirm" /\ UNCHANGED result
                      ELSE pc' = "ret" /\ result' = "Err"
    /\ UNCHANGED <<mode, passes, system_disk, i, disks, non_system, input2,
                   probe, listVars, handles, st, w, target>>

\* a comparison that accepts the beginning of the phrase
PhraseMatchesPrefix(line, phrase) ==
    LET t == Trim(line)
    IN  Len(t) <= Len(phrase) /\ t = SubSeq(phrase, 1, Len(t))

\* input2.trim() != phrase, negated
PhraseMatches(line, phrase) == Trim(line) = phrase

\* read the confirmation and compare it with the phrase
ConfirmRead ==
    /\ pc = "confirm"
    /\ \E line \in ConfirmLines(Unwrap(selected).index), readOk \in BOOLEAN :
          LET phrase == Phrase(Unwrap(selected).index)
          IN  IF ~readOk
              THEN /\ result' = "Err"
                   /\ pc' = "ret"
                   /\ UNCHANGED <<trace, input2>>
              ELSE /\ input2' = line
                   /\ IF ~PhraseMatches(line, phrase)
                      THEN /\ result' = "Ok"
                           /\ pc' = "ret"
                           /\ trace' = trace \o <<<<"read", "confirm">>,
                                  Msg("Aborted by user (confirmation phrase did not match).")>>
                      ELSE /\ pc' = "open"
                           /\ trace' = trace \o <<<<"read", "confirm">>>>
                           /\ UNCHANGED result
    /\ UNCHANGED <<mode, passes, system_disk, i, disks, non_system, selected,
                   probe, listVars, handles, st, w, target>>


(***************************************************************************)
(* wipe_file (src/src/wipe.rs).                                            *)
(***************************************************************************)
\* no adjustment of the pass count
AdjustNothing(m, p) == p

\* SecureFlip should always be at least 2 passes
AdjustPasses(m, p) == IF m = "Secureflip" /\ p < 2 THEN 2 ELSE p

\* the arms of Zeros and Secureflip exchanged
StaticPatternSwapped(m, pass) ==
    IF m = "Zeros" THEN (IF pass % 2 = 1 THEN Some(0) ELSE Some(255))
    ELSE IF m = "Secureflip" THEN Some(0)
    ELSE NoneOpt

\* the parity test of Secureflip inverted
StaticPatternInverted(m, pass) ==
    IF m = "Secureflip" THEN (IF pass % 2 = 0 THEN Some(0) ELSE Some(255))
    ELSE IF m = "Zeros" THEN Some(0)
    ELSE NoneOpt

\* static_pattern
StaticPattern(m, pass) ==
    IF m = "Secureflip" THEN (IF pass % 2 = 1 THEN Some(0) ELSE Some(255))
    ELSE IF m = "Zeros" THEN Some(0)
    ELSE NoneOpt

\* a chunk that is never cut to what is left
ToWriteWholeChunk(size, written) == CHUNK

\* to_write of one loop iteration
ToWrite(size, written) ==
    LET left == size - written
    IN  IF left < CHUNK THEN left ELSE CHUNK

\* a buffer left as the pass before filled it
FillNothing(buf, byte) == buf

\* buf.fill(byte)
Fill(buf, byte) == [k \in 1..Len(buf) |-> byte]

\* the throttle of the progress line, in microseconds (200 ms)
THROTTLE == 200000

\* the floor of the elapsed time, in microseconds (0.000_001 s)
MIN_SECS == 1

\* microseconds in a second
MICROS == 1000000

\* times, in microseconds, that one chunk may take to fill and write
Durations == {0, 1000000}

\* last_print.elapsed() after dt more microseconds; beyond the throttle the
\* exact value does not matter and is kept at the throttle
Since(since, dt) == IF since + dt >= THROTTLE THEN THROTTLE ELSE since + dt

\* a counter that a write leaves where it was
AdvanceNothing(written, to_write) == written

\* written += to_write as u64
Advance(written, to_write) == written + to_write

\* a throttle timestamp that an emission does not renew
AfterEmitKeeps(emit, since) == since

\* last_print = Instant::now() after an emission
AfterEmit(emit, since) == IF emit THEN 0 ELSE since

\* an ETA that takes the bytes written for the bytes that remain
EtaOfWritten(size, written, elapsed) ==
    LET secs == IF elapsed < MIN_SECS THEN MIN_SECS ELSE elapsed
    IN  IF written > 0 THEN (written * secs) \div (written * MICROS) ELSE 0

\* eta_secs: remaining bytes over the throughput written / secs, cut to a
\* whole number of seconds; 0 when the throughput is not positive
Eta(size, written, elapsed) ==
    LET secs == IF elapsed < MIN_SECS THEN MIN_SECS ELSE elapsed
        remain_bytes == size - written
    IN  IF written > 0 THEN (remain_bytes * secs) \div (written * MICROS) ELSE 0

\* a progress line on the interval only
ShouldEmitOnInterval(elapsed200, written, size) == elapsed200

\* the condition under which a progress line is printed after a chunk
ShouldEmit(elapsed200, written, size) == elapsed200 \/ written = size

\* the bytes of a target after data was written at the 0-based offset off
WriteAt(bytes, off, data) ==
    LET n == IF off + Len(data) > Len(bytes) THEN off + Len(data) ELSE Len(bytes)
    IN  [k \in 1..n |->
            IF k > off /\ k <= off + Len(data) THEN data[k - off]
            ELSE IF k <= Len(bytes) THEN bytes[k]
            ELSE 0]

\* a seek that leaves the position where the pass before ended
RewindNothing(cursor) == cursor

\* file.seek(SeekFrom::Start(0))
Rewind(cursor) == 0

\* what the log keeps of the bytes handed to write_all: the bytes of a
\* pattern, nothing of the output of the generator
Logged(m, data) == IF m = "Random" THEN <<>> ELSE data

\* a result that is never looked at
PropagateNothing(ok, next) == next

\* the ? operator on an io::Result: Err returns from wipe_file at once
Propagate(ok, next) == IF ok THEN next ELSE "Err"

\* a loop over 1..passes, the upper bound excluded
LastPassExclusive(p) == p - 1

\* the last pass of for pass in 1..=passes
LastPass(p) == p

\* the handle of a target opened for read-write
FileHandle(dev) == <<"file", dev>>

\* wipe_file owns file: it is dropped, and so closed, when wipe_file returns
DropFile(hs, dev, next) ==
    IF next \in {"Done", "Err"} THEN hs \ {FileHandle(dev)} ELSE hs

\* the locals of a call wipe_file(file, size, mode, passes)
Locals(dev, size, m, p) ==
    [size |-> size, mode |-> m, passes |-> p, requested |-> p, pass |-> 0,
     written |-> 0, cursor |-> 0, buf |-> [k \in 1..CHUNK |-> 0], dev |-> dev,
     since |-> 0, elapsed |-> 0]

\* entry of wipe_file: the buffer, the SecureFlip adjustment, the loop head
WipeEnter ==
    /\ st = "Entry"
    /\ LET p == AdjustPasses(w.mode, w.passes)
       IN  /\ trace' = IF p # w.passes
                       THEN trace \o <<Msg("passes changed to 2")>>
                       ELSE trace
           /\ IF 1 <= LastPass(p)
              THEN /\ w' = [w EXCEPT !.passes = p, !.pass = 1]
                   /\ st' = "Seeking"
              ELSE /\ w' = [w EXCEPT !.passes = p]
                   /\ st' = "Done"
    /\ handles' = DropFile(handles, w.dev, st')
    /\ UNCHANGED <<flowVars, target>>

\* a random fill before the first chunk of a pass only
ChunkFillFirstOnly(m, pass, written, to_write) ==
    IF IsSome(StaticPattern(m, pass)) THEN NoneOpt
    ELSE IF written = 0 THEN Some(to_write)
    ELSE NoneOpt

\* if static_pattern.is_none(): the number of bytes of the buffer filled
\* afresh before a chunk is written (None: the buffer is written as it is)
ChunkFill(m, pass, written, to_write) ==
    IF IsSome(StaticPattern(m, pass)) THEN NoneOpt ELSE Some(to_write)

\* the entry of the history for a fill of n bytes of the buffer
FillEvent(pass, n, kind) == <<"fill", pass, n, kind>>

\* start of a pass: the seek, the counters, the pattern buffer
PassSeek ==
    /\ st = "Seeking"
    /\ \E ok \in BOOLEAN :
          /\ trace' = trace \o <<Msg("Starting pass"), <<"seek", w.pass, w.dev, ok>>>>
                          \o (IF ok /\ IsSome(StaticPattern(w.mode, w.pass))
                              THEN <<FillEvent(w.pass, Len(w.buf), "pattern")>>
                              ELSE <<>>)
          /\ st' = Propagate(ok, "Streaming")
          /\ IF ok
             THEN w' = [w EXCEPT !.cursor = Rewind(w.cursor), !.written = 0,
                           !.since = 0, !.elapsed = 0,
                           !.buf = IF IsSome(StaticPattern(w.mode, w.pass))
                                   THEN Fill(w.buf, Unwrap(StaticPattern(w.mode, w.pass)))
                                   ELSE w.buf]
             ELSE UNCHANGED w
    /\ handles' = DropFile(handles, w.dev, st')
    /\ UNCHANGED <<flowVars, target>>

\* rng.fill_bytes(&mut buf[..n]): the fillings of the first n bytes (of the
\* generator's outputs, those that repeat one byte of RandBytes)
RandomFills(buf, n) ==
    {[k \in 1..Len(buf) |-> IF k <= n THEN r ELSE buf[k]] : r \in RandBytes}

\* one iteration of while written < size
WriteChunk ==
    /\ st = "Streaming"
    /\ w.written < w.size
    /\ LET to_write == ToWrite(w.size, w.written)
           fill == ChunkFill(w.mode, w.pass, w.written, to_write)
           filled == IF IsSome(fill)
                     THEN <<FillEvent(w.pass, Unwrap(fill), "random")>>
                     ELSE <<>>
       IN  \E buf \in (IF IsSome(fill) THEN RandomFills(w.buf, Unwrap(fill)) ELSE {w.buf}),
              ok \in BOOLEAN, dt \in Durations :
              \/ /\ ok
                 /\ target' = WriteAt(target, w.cursor, SubSeq(buf, 1, to_write))
                 /\ LET written == Advance(w.written, to_write)
                        elapsed == w.elapsed + dt
                        elapsed200 == Since(w.since, dt) >= THROTTLE
                        emit == ShouldEmit(elapsed200, written, w.size)
                    IN  /\ w' = [w EXCEPT !.buf = buf,
                                          !.cursor = w.cursor + to_write,
                                          !.written = written,
                                          !.elapsed = elapsed,
                                          !.since = AfterEmit(emit, Since(w.since, dt))]
                        /\ trace' = trace \o filled
                              \o <<<<"write", w.pass, w.dev, w.cursor, to_write,
                                      Logged(w.mode, SubSeq(buf, 1, to_write)), TRUE>>>>
                              \o (IF emit
                                  THEN << <<"progress", w.pass, written>>,
                                          <<"eta", w.pass, Eta(w.size, written, elapsed)>> >>
                                  ELSE <<>>)
                 /\ UNCHANGED st
              \/ /\ ~ok
                 /\ dt = 0
                 \* write_all failed: some prefix of the chunk may have reached the target
                 /\ \E n \in 0..(to_write - 1) :
                       /\ target' = WriteAt(target, w.cursor, SubSeq(buf, 1, n))
                       /\ w' = [w EXCEPT !.buf = buf, !.cursor = w.cursor + n]
                 /\ trace' = trace \o filled
                       \o <<<<"write", w.pass, w.dev, w.cursor, to_write,
                               Logged(w.mode, SubSeq(buf, 1, to_write)), FALSE>>>>
                 /\ st' = Propagate(FALSE, "Streaming")
    /\ handles' = DropFile(handles, w.dev, st')
    /\ UNCHANGED flowVars

\* the loop condition fails: the pass has streamed its bytes
StreamEnd ==
    /\ st = "Streaming"
    /\ ~(w.written < w.size)
    /\ st' = "Flushing"
    /\ UNCHANGED <<flowVars, handles, w, target, trace>>

\* end of a pass: the flush, then the next pass or Ok
PassFlush ==
    /\ st = "Flushing"
    /\ \E ok \in BOOLEAN :
          IF ok
          THEN /\ trace' = trace \o <<<<"flush", w.pass, w.dev, TRUE>>, Msg("Finished pass")>>
               /\ IF w.pass < LastPass(w.passes)
                  THEN /\ w' = [w EXCEPT !.pass = w.pass + 1]
                       /\ st' = "Seeking"
                  ELSE /\ st' = "Done"
                       /\ UNCHANGED w
          ELSE /\ trace' = trace \o <<<<"flush", w.pass, w.dev, FALSE>>>>
               /\ st' = Propagate(FALSE, "Seeking")
               /\ UNCHANGED w
    /\ handles' = DropFile(handles, w.dev, st')
    /\ UNCHANGED <<flowVars, target>>

Engine == WipeEnter \/ PassSeek \/ WriteChunk \/ StreamEnd \/ PassFlush

(***************************************************************************)
(* run_disk_wipe_flow, after both prompts.                                 *)
(***************************************************************************)
\* the path opened for read-write
OpenPath(sel) == DevPath(sel.index)

\* the length of the first disk of the list, whichever was selected
WipeLengthOfFirst(sel) == disks[1].size_bytes

\* the length passed to wipe_file
WipeLength(sel) == sel.size_bytes

\* the length of the device d of this machine (0: no such device)
DeviceLength(d) ==
    IF IsSome(Find(disks, d)) THEN Unwrap(Find(disks, d)).size_bytes ELSE 0

\* open the device for read-write and call wipe_file
OpenDevice ==
    /\ pc = "open"
    /\ LET d == OsDevice(OpenPath(Unwrap(selected)))
       IN  \E ok \in BOOLEAN :
              IF ok
              THEN /\ trace' = trace \o <<<<"open_rw", d, TRUE>>, Msg("Starting wipe")>>
                   /\ target' \in DevContents(DeviceLength(d))
                   /\ w' = Locals(Some(d), WipeLength(Unwrap(selected)), mode, passes)
                   /\ st' = "Entry"
                   /\ pc' = "wipe"
                   /\ handles' = handles \cup {FileHandle(Some(d))}
                   /\ UNCHANGED result
              ELSE /\ trace' = trace \o <<<<"open_rw", d, FALSE>>>>
                   /\ result' = "Err"
                   /\ pc' = "ret"
                   /\ UNCHANGED <<st, w, target, handles>>
    /\ UNCHANGED <<mode, passes, system_disk, i, disks, non_system, selected,
                   input2, probe, listVars>>

\* a caller that takes every return of wipe_file for success
WipeResultAlwaysOk(s) == "Ok"

\* the io::Result that wipe_file returned, as its caller matches it
WipeResult(s) == IF s = "Done" THEN "Ok" ELSE "Err"

\* wipe_file returned: propagate the error or report completion
WipeReturn ==
    /\ pc = "wipe"
    /\ st \in {"Done", "Err"}
    /\ result' = WipeResult(st)
    /\ trace' = IF WipeResult(st) = "Ok"
                THEN trace \o <<Msg("[+] Disk wipe completed")>>
                ELSE trace
    /\ pc' = "ret"
    /\ UNCHANGED <<mode, passes, system_disk, i, disks, non_system, selected,
                   input2, probe, listVars, handles, st, w, target>>

Next ==
    \/ FlowEnter
    \/ EnumStep
    \/ EnumDone
    \/ SelectRead
    \/ ConfirmRead
    \/ OpenDevice
    \/ Engine
    \/ WipeReturn

Spec == Init /\ [][Next]_vars

(***************************************************************************)
(* wipe_file called directly on a target of the given size.                *)
(***************************************************************************)
InitWipe == pc = "harness" /\ InitVars

CallWipeFile ==
    /\ pc = "harness"
    /\ st = "Idle"
    /\ \E size \in 0..MaxSize, m \in Modes, p \in 0..MaxPasses :
          /\ target' \in Contents(size)
          /\ w' = Locals(NoneOpt, size, m, p)
    /\ st' = "Entry"
    /\ handles' = handles \cup {FileHandle(NoneOpt)}
    /\ UNCHANGED <<flowVars, trace>>

(***************************************************************************)
(* The earlier variants of the engine: wipe_file of src/src/main.rs and    *)
(* wipe_with_zeros of src/bin/wipe_file.rs, as the sequence of operations  *)
(* each issues on the file when none fails.  An operation is               *)
(* <<"seek", offset>>, <<"write", offset, length, bytes>> or <<"flush">>.  *)
(***************************************************************************)
\* vec![0u8; CHUNK_SIZE]
ZeroBuffer == [k \in 1..CHUNK |-> 0]

RECURSIVE OldChunks(_, _, _)
\* while written < size of both variants; after the seek to 0 the file
\* position of a write is the count of bytes written before it
OldChunks(size, m, written) ==
    IF written < size
    THEN LET remaining == size - written
             to_write == IF remaining < CHUNK THEN remaining ELSE CHUNK
         IN  <<<<"write", written, to_write, Logged(m, SubSeq(ZeroBuffer, 1, to_write))>>>>
                \o OldChunks(size, m, written + to_write)
    ELSE <<>>

\* one pass of main.rs wipe_file
MainPass(size, m) == <<<<"seek", 0>>>> \o OldChunks(size, m, 0) \o <<<<"flush">>>>

RECURSIVE MainPasses(_, _, _, _)
\* for pass in 1..=passes, from pass on
MainPasses(size, m, pass, p) ==
    IF pass <= p
    THEN MainPass(size, m) \o MainPasses(size, m, pass + 1, p)
    ELSE <<>>

\* main.rs wipe_file(file, size, mode, passes)
MainWipeFile(size, m, p) == MainPasses(size, m, 1, p)

\* wipe_with_zeros(file, size)
WipeWithZeros(size) == <<<<"seek", 0>>>> \o OldChunks(size, "Zeros", 0) \o <<<<"flush">>>>

\* a run of a variant in which the fail-th operation fails (none when fail
\* is 0): every operation carries ?, so the run issues the operations up to
\* the failing one and returns Err there
Run(ops, fail) ==
    IF fail \in 1..Len(ops)
    THEN <<[k \in 1..fail |-> Append(ops[k], k < fail)], "Err">>
    ELSE <<[k \in 1..Len(ops) |-> Append(ops[k], TRUE)], "Ok">>

\* a target of three chunks, the last one short
LongSize == 2 * CHUNK + 1

\* wipe_file called on a target of several chunks
CallWipeLong ==
    /\ pc = "harness"
    /\ st = "Idle"
    /\ \E m \in Modes, p \in 1..MaxPasses :
          /\ target' \in DevContents(LongSize)
          /\ w' = Locals(NoneOpt, LongSize, m, p)
    /\ st' = "Entry"
    /\ handles' = handles \cup {FileHandle(NoneOpt)}
    /\ UNCHANGED <<flowVars, trace>>

NextLong == CallWipeLong \/ Engine

SpecLong == InitWipe /\ [][NextLong]_vars

NextWipe == CallWipeFile \/ Engine

SpecWipe == InitWipe /\ [][NextWipe]_vars

\* every seek, write and flush that wipe_file issues returns: a step of the
\* engine that is possible is eventually taken
SpecWipeFair == SpecWipe /\ WF_vars(Engine)


(***************************************************************************)
(* list_disks and show_disk_size (src/src/win.rs), called from the shell.  *)
(***************************************************************************)
\* values of max_index a caller passes (main passes 16)
ListMax == {0, 2, MAX_INDEX}

\* the builds: with overflow checks (the dev profile) and without (release)
OverflowChecks == BOOLEAN

\* a u32 as its two 16-bit halves
U32(n) == <<"u32", n \div 65536, n % 65536>>

\* max_index - 1 on u32: below 0 the subtraction panics in a build with
\* overflow checks and wraps to 2^32 - 1 in a build without
SubOne(n, checks) ==
    IF n >= 1 THEN U32(n - 1)
    ELSE IF checks THEN <<"panic">>
    ELSE <<"u32", 65535, 65535>>

\* device numbers given to show_disk_size
QueryDisks == Probe \cup {5}

InitQuery == pc = "shell" /\ InitVars

\* list_disks: resolve the system disk, print the header
ListEnter ==
    /\ pc = "shell"
    /\ \E mi \in ListMax, arg \in {Some(n) : n \in Overrides} \cup {NoneOpt},
          vol \in VolOutcomes, checks \in OverflowChecks :
          /\ IsSome(arg) => vol = <<"openfail">>   \* detection does not run
          /\ mi >= 1 => checks                     \* the builds agree
          /\ max_index' = mi
          /\ system_disk' = ResolveSystemDisk(arg, vol)
          /\ handles' = IF IsSome(arg) THEN handles ELSE DetectHandles(handles, vol)
          /\ LET resolved == trace \o <<<<"arg", arg>>>>
                                  \o (IF IsSome(arg) THEN <<>> ELSE <<<<"detect", vol>>>>)
                                  \o <<Msg(ResolveMessage(arg, vol))>>
                 upper == SubOne(mi, checks)
             IN  IF upper = <<"panic">>
                 THEN /\ trace' = resolved \o <<<<"panic", "attempt to subtract with overflow">>>>
                      /\ result' = "Panic"
                      /\ pc' = "panic"
                 ELSE /\ trace' = resolved \o <<Msg("Detected physical disks"),
                                                 <<"upto", upper>>>>
                      /\ pc' = "list"
                      /\ UNCHANGED result
    /\ any' = FALSE
    /\ i' = 0
    /\ UNCHANGED <<mode, passes, disks, non_system, selected, input2,
                   probe, st, w, target>>

\* the line list_disks prints for an index, if it prints one
ListLine(index, outcome) ==
    IF outcome[1] = "nodev" THEN <<>>
    ELSE IF outcome[1] = "ioctlerr" THEN <<Msg("failed to get size")>>
    ELSE IF outcome[2] <= 0 THEN <<>>
    ELSE <<<<"listed", index, outcome[2], index = system_disk>>>>

\* one iteration of for i in 0..max_index
ListStep ==
    /\ pc = "list"
    /\ i < max_index
    /\ \E outcome \in DevOutcomes(i) :
          /\ probe' = outcome
          /\ handles' = EnumHandles(handles, i, outcome)
          /\ any' = (any \/ (outcome[1] = "len" /\ outcome[2] > 0))
          /\ trace' = trace \o ListLine(i, outcome)
    /\ i' = i + 1
    /\ UNCHANGED <<pc, mode, passes, system_disk, disks, non_system, selected,
                   input2, result, max_index, st, w, target>>

\* after the loop
ListDone ==
    /\ pc = "list"
    /\ ~(i < max_index)
    /\ trace' = IF ~any
                THEN trace \o <<Msg("No physical disks found"),
                                 <<"upto", SubOne(max_index, max_index >= 1)>>>>
                ELSE trace
    /\ result' = "Ok"
    /\ probe' = NoneOpt
    /\ pc' = "ret"
    /\ UNCHANGED <<mode, passes, system_disk, i, disks, non_system, selected,
                   input2, listVars, handles, st, w, target>>

\* the handles open when show_disk_size returns
ShowHandles(hs, disk_num, outcome) ==
    IF outcome[1] = "nodev" THEN hs
    ELSE IF outcome[1] = "ioctlerr" THEN hs \cup {DevHandle(disk_num)}
    ELSE CloseHandle(hs \cup {DevHandle(disk_num)}, DevHandle(disk_num))

\* what show_disk_size returns
ShowResult(outcome) ==
    IF outcome[1] = "nodev" THEN "Err"
    ELSE IF outcome[1] = "ioctlerr" THEN "Err"
    ELSE IF outcome[2] < 0 THEN "Err"
    ELSE "Ok"

\* show_disk_size(disk_num)
ShowDiskSize ==
    /\ pc = "shell"
    /\ \E disk_num \in QueryDisks :
          \E outcome \in DevOutcomes(disk_num) :
              /\ handles' = ShowHandles(handles, disk_num, outcome)
              /\ result' = ShowResult(outcome)
              /\ trace' = trace \o <<Msg("Opening physical drive"),
                                      <<"query", disk_num, outcome>>>>
                              \o (IF ShowResult(outcome) = "Ok"
                                  THEN <<<<"size", disk_num, outcome[2]>>>>
                                  ELSE <<>>)
    /\ pc' = "ret"
    /\ UNCHANGED <<mode, passes, system_disk, i, disks, non_system, selected,
                   input2, probe, listVars, st, w, target>>

NextQuery == ListEnter \/ ListStep \/ ListDone \/ ShowDiskSize

SpecQuery == InitQuery /\ [][NextQuery]_vars

(***************************************************************************)
(* File-wipe mode: main (src/src/main.rs:127-191) and confirm_wipe         *)
(* (src/src/wipe.rs:19-41, src/src/main.rs:198-220).                       *)
(***************************************************************************)
\* what fs::metadata answers for the target path
\* <<"nometa">>: the call fails; <<"notfile">>: not a regular file;
\* <<"file", n>>: a regular file of n bytes
FileMetas == {<<"nometa">>, <<"notfile">>} \cup {<<"file", n>> : n \in {0} \cup DevSizes}

\* pass counts given with --passes
FilePasses == 0..MaxPasses

Yes == <<"Y", "E", "S">>

YesTexts == { Yes, <<"y", "e", "s">>, <<" ", "Y", "E", "S", " ">>, <<"N", "O">>, <<>> }

\* lines the operator may enter at the prompt of confirm_wipe
YesLines == {Line(t) : t \in YesTexts}

\* the variants of confirm_wipe: the one of wipe.rs and the one of main.rs
ConfirmVariants == {"wipe.rs", "main.rs"}

\* char::to_lowercase, on the letters of the model
LowerChar(c) ==
    CASE c = "Y" -> "y"
      [] c = "E" -> "e"
      [] c = "S" -> "s"
      [] c = "N" -> "n"
      [] c = "O" -> "o"
      [] OTHER -> c

\* str::to_lowercase
ToLowercase(s) == [k \in 1..Len(s) |-> LowerChar(s[k])]

\* wipe.rs: input.trim().to_lowercase() != "YES", negated
ConfirmedLib(line) == ToLowercase(Trim(line)) = Yes

\* main.rs: input.trim() != "YES", negated
ConfirmedMain(line) == Trim(line) = Yes

Confirmed(variant, line) ==
    IF variant = "wipe.rs" THEN ConfirmedLib(line) ELSE ConfirmedMain(line)

\* a check that lets an empty file through
MetaProblemNoEmpty(meta) ==
    IF meta[1] = "nometa" THEN <<Msg("could not read metadata")>>
    ELSE IF meta[1] = "notfile" THEN <<Msg("is not a regular file")>>
    ELSE <<>>

\* the message of the metadata checks of main, if one of them fails
MetaProblem(meta) ==
    IF meta[1] = "nometa" THEN <<Msg("could not read metadata")>>
    ELSE IF meta[1] = "notfile" THEN <<Msg("is not a regular file")>>
    ELSE IF meta[2] = 0 THEN <<Msg("File is empty")>>
    ELSE <<>>

InitFile == pc = "cli" /\ InitVars

\* main: the metadata checks and the summary
FileMain ==
    /\ pc = "cli"
    /\ \E meta \in FileMetas, m \in Modes, p \in FilePasses :
          IF MetaProblem(meta) # <<>>
          THEN /\ trace' = trace \o <<<<"metadata", meta>>>> \o MetaProblem(meta)
               /\ result' = "Exit0"
               /\ pc' = "ret"
               /\ UNCHANGED w
          ELSE /\ trace' = trace \o <<<<"metadata", meta>>, Msg("Target file")>>
               /\ w' = Locals(NoneOpt, meta[2], m, p)
               /\ pc' = "fconfirm"
               /\ UNCHANGED result
    /\ UNCHANGED <<mode, passes, system_disk, i, disks, non_system, selected,
                   input2, probe, listVars, handles, st, target>>

\* confirm_wipe, and what main does with its result
FileConfirm ==
    /\ pc = "fconfirm"
    /\ \E variant \in ConfirmVariants, line \in YesLines, flushed \in BOOLEAN,
          readOk \in BOOLEAN :
          IF ~flushed \/ ~readOk
          THEN /\ trace' = trace \o <<Msg("Type 'YES' to continue"),
                                       Msg("Error reading confirmation")>>
               /\ result' = "Exit0"
               /\ pc' = "ret"
               /\ UNCHANGED input2
          ELSE /\ input2' = line
               /\ IF ~Confirmed(variant, line)
                  THEN /\ trace' = trace \o <<Msg("Type 'YES' to continue"),
                                               <<"read", "yes", variant>>,
                                               Msg("Aborted by user.")>>
                       /\ result' = "Exit0"     \* std::process::exit(0)
                       /\ pc' = "exit"
                  ELSE /\ trace' = trace \o <<Msg("Type 'YES' to continue"),
                                               <<"read", "yes", variant>>>>
                       /\ pc' = "fopen"
                       /\ UNCHANGED result
    /\ UNCHANGED <<mode, passes, system_disk, i, disks, non_system, selected,
                   probe, listVars, handles, st, w, target>>

\* main: open the file for read and write, call wipe_file
FileOpen ==
    /\ pc = "fopen"
    /\ \E ok \in BOOLEAN :
          IF ok
          THEN /\ trace' = trace \o <<<<"open_file", TRUE>>>>
               /\ handles' = handles \cup {FileHandle(w.dev)}
               /\ target' \in DevContents(w.size)
               /\ st' = "Entry"
               /\ pc' = "fwipe"
               /\ UNCHANGED result
          ELSE /\ trace' = trace \o <<<<"open_file", FALSE>>, Msg("could not open for writing")>>
               /\ result' = "Exit0"
               /\ pc' = "ret"
               /\ UNCHANGED <<handles, target, st>>
    /\ UNCHANGED <<mode, passes, system_disk, i, disks, non_system, selected,
                   input2, probe, listVars, w>>

\* main: wipe_file returned
FileWipeReturn ==
    /\ pc = "fwipe"
    /\ st \in {"Done", "Err"}
    /\ trace' = IF WipeResult(st) = "Ok"
                THEN trace \o <<Msg("[+] Wipe completed")>>
                ELSE trace \o <<Msg("Wipe failed")>>
    /\ result' = "Exit0"
    /\ pc' = "ret"
    /\ UNCHANGED <<mode, passes, system_disk, i, disks, non_system, selected,
                   input2, probe, listVars, handles, st, w, target>>

NextFile == FileMain \/ FileConfirm \/ FileOpen \/ Engine \/ FileWipeReturn

SpecFile == InitFile /\ [][NextFile]_vars

(***************************************************************************)
(* The two wiping programs side by side: the whole-device flow and the     *)
(* file-wipe mode.                                                         *)
(***************************************************************************)
InitTool == Init \/ InitFile

NextTool == Next \/ NextFile

SpecTool == InitTool /\ [][NextTool]_vars

(***************************************************************************)
(* Views of the history.                                                   *)
(***************************************************************************)
IsIo(e) == e[1] \in {"seek", "write", "flush"}

\* the seeks, writes and flushes issued on the target, in order
Io == SelectSeq(trace, IsIo)

IoOk(e) == e[Len(e)]

\* trace entries of the given kind
Events(kind) == SelectSeq(trace, LAMBDA e : e[1] = kind)

Positions(kind) == {k \in 1..Len(trace) : trace[k][1] = kind}

NoDestructiveStep ==
    /\ Events("open_rw") = <<>>
    /\ Io = <<>>
    /\ target = <<>>
    /\ st = "Idle"

(***************************************************************************)
(* C1.  In the whole-device wipe flow, whatever the enumeration finds,     *)
(* whatever system-disk index S is resolved and whatever the operator      *)
(* types, S is never among the selectable candidates, the device S is      *)
(* never opened for read-write and no seek, write or flush is issued on it.*)
(***************************************************************************)
C1_SystemDiskNeverWiped ==
    /\ system_disk \notin Indices(non_system)
    /\ IsSome(selected) => Unwrap(selected).index # system_disk
    /\ \A k \in 1..Len(trace) :
          /\ trace[k][1] = "open_rw" => trace[k][2] # system_disk
          /\ IsIo(trace[k]) => trace[k][3] # Some(system_disk)

\* the system disk was enumerated and another disk was wiped to the end
C1_Witness ==
    /\ system_disk \in Indices(disks)
    /\ pc = "ret"
    /\ result = "Ok"
    /\ st = "Done"
    /\ \E k \in 1..Len(trace) : trace[k][1] = "write" /\ IoOk(trace[k])

(***************************************************************************)
(* C2 as stated.  A confirmation that differs from the required phrase     *)
(* ends the flow with Ok, with no device opened and nothing written.       *)
(***************************************************************************)
C2_AnyDifferenceCancels ==
    (input2 # <<>> /\ Typed(input2) # Phrase(Unwrap(selected).index))
        => (pc = "ret" /\ result = "Ok" /\ NoDestructiveStep)

(***************************************************************************)
(* C2, amended.  The device is opened for read-write and wipe_file is      *)
(* called only after (1) the typed index was found among the non-system    *)
(* candidates and then (2) the confirmation line, with leading and         *)
(* trailing whitespace removed, equalled the phrase; a confirmation that   *)
(* differs from the phrase after that trimming ends the flow with Ok, with *)
(* no device opened and nothing written.                                   *)
(***************************************************************************)
C2_GatesBeforeWipe ==
    /\ LET destructive ==
               {k \in 1..Len(trace) : trace[k][1] = "open_rw" \/ IsIo(trace[k])}
       IN  destructive # {} =>
              /\ IsSome(selected)
              /\ \E n \in 1..Len(non_system) :
                    /\ non_system[n] = Unwrap(selected)
                    /\ non_system[n].index # system_disk
                    /\ \E m \in 1..Len(disks) : disks[m] = non_system[n]
              /\ Trim(input2) = Phrase(Unwrap(selected).index)
              /\ \E a \in Positions("read"), b \in Positions("read") :
                    /\ a < b
                    /\ \A k \in destructive : b < k
                    /\ trace[a][2] = "select"
                    /\ trace[b][2] = "confirm"
    /\ (input2 # <<>> /\ Trim(input2) # Phrase(Unwrap(selected).index))
          => (pc = "ret" /\ result = "Ok" /\ NoDestructiveStep)

\* disk 12 was selected and the operator typed the phrase of disk 1, which
\* is a prefix of the required one: the flow was cancelled
C2_Witness ==
    /\ IsSome(selected)
    /\ Unwrap(selected).index = 12
    /\ Typed(input2) = Phrase(1)
    /\ pc = "ret"
    /\ result = "Ok"

(***************************************************************************)
(* C3.  The phrases of two different device indices differ; when index i   *)
(* was selected only the phrase of i is accepted; and once it is accepted  *)
(* the device opened for writing is i and the length given to wipe_file is *)
(* the size enumeration recorded for i.                                    *)
(***************************************************************************)
C3_PhraseBoundToDevice ==
    \* the phrases do not depend on the state: compared once, at the start
    /\ pc = "idle" =>
          \A a \in 0..(MAX_INDEX - 1), b \in 0..(MAX_INDEX - 1) :
              a # b => Phrase(a) # Phrase(b)
    /\ pc \in {"open", "wipe"} =>
          \A j \in 0..(MAX_INDEX - 1) :
              Trim(input2) = Phrase(j) <=> j = Unwrap(selected).index
    /\ \A k \in 1..Len(trace) :
          trace[k][1] = "open_rw" => trace[k][2] = Unwrap(selected).index
    /\ st # "Idle" =>
          /\ w.dev = Some(Unwrap(selected).index)
          /\ \E n \in 1..Len(disks) :
                /\ disks[n].index = Unwrap(selected).index
                /\ disks[n].size_bytes = w.size
                /\ \A m \in 1..Len(disks) : disks[m].index = disks[n].index => m = n

\* disks 1 and 12 are both candidates, of different sizes; 12 was selected,
\* confirmed and is being wiped
C3_Witness ==
    /\ st = "Streaming"
    /\ Unwrap(selected).index = 12
    /\ \E n \in 1..Len(disks) :
          /\ disks[n].index = 1
          /\ ~disks[n].is_system
          /\ disks[n].size_bytes # Unwrap(selected).size_bytes


(***************************************************************************)
(* C10.  When the line entered at the selection prompt is empty or holds   *)
(* whitespace only, the flow returns Ok, asks for no confirmation phrase,  *)
(* opens no device for writing and writes nothing.                         *)
(***************************************************************************)
AllWhite(line) == \A k \in 1..Len(line) : IsWhite(line[k])

SelectionsRead == {k \in 1..Len(trace) : trace[k][1] = "read" /\ trace[k][2] = "select"}

C10_EmptySelectionCancels ==
    \A k \in SelectionsRead :
        AllWhite(trace[k][3]) =>
            /\ pc = "ret"
            /\ result = "Ok"
            /\ Events("ask") = <<>>
            /\ \A n \in 1..Len(trace) : trace[n][1] = "read" => n = k
            /\ selected = NoneOpt
            /\ NoDestructiveStep

\* the operator typed a blank and pressed Enter while a candidate was on offer
C10_Witness ==
    /\ non_system # <<>>
    /\ \E k \in SelectionsRead : Typed(trace[k][3]) = <<" ">>
    /\ pc = "ret"

(***************************************************************************)
(* Views of one call of wipe_file.                                         *)
(***************************************************************************)
\* the write calls of pass p, failed ones included, in order
WritesOf(p) == SelectSeq(trace, LAMBDA e : e[1] = "write" /\ e[2] = p)

RECURSIVE SumLen(_)
\* bytes of the write calls of ws that succeeded
SumLen(ws) ==
    IF ws = <<>> THEN 0
    ELSE SumLen(SubSeq(ws, 1, Len(ws) - 1))
            + (IF IoOk(ws[Len(ws)]) THEN ws[Len(ws)][5] ELSE 0)

\* flushes that returned success
FlushesDone == Len(SelectSeq(trace, LAMBDA e : e[1] = "flush" /\ IoOk(e)))

AllBytes(b) == Len(target) = w.size /\ \A k \in 1..w.size : target[k] = b

(***************************************************************************)
(* C4.  For every size > 0 and every pass count >= 1, when wipe_file with  *)
(* mode Zeros has returned Ok every byte of [0, size) of the target is     *)
(* 0x00, whatever the target held before.                                  *)
(***************************************************************************)
C4_ZerosLeaveZeros ==
    (st = "Done" /\ w.mode = "Zeros" /\ w.size > 0 /\ w.requested >= 1)
        => AllBytes(0)

\* a Zeros wipe of several passes over a target of more than one chunk ended
C4_Witness ==
    /\ st = "Done"
    /\ w.mode = "Zeros"
    /\ w.size > CHUNK
    /\ w.requested >= 2
    /\ AllBytes(0)

(***************************************************************************)
(* C5.  For every size > 0 and every pass count P >= 2, when wipe_file     *)
(* with mode SecureFlip has returned Ok every byte of [0, size) is 0x00 if *)
(* P is odd and 0xFF if P is even.                                         *)
(***************************************************************************)
C5_SecureFlipFinalPattern ==
    (st = "Done" /\ w.mode = "Secureflip" /\ w.size > 0 /\ w.requested >= 2)
        => AllBytes(IF w.requested % 2 = 1 THEN 0 ELSE 255)

\* a SecureFlip wipe with an odd pass count ended: the target is all zero
C5_Witness ==
    /\ st = "Done"
    /\ w.mode = "Secureflip"
    /\ w.size > CHUNK
    /\ w.requested >= 2
    /\ w.requested % 2 = 1
    /\ AllBytes(0)

(***************************************************************************)
(* C6.  On a run without I/O failure wipe_file executes exactly 2 passes   *)
(* for SecureFlip when fewer than 2 were requested, reporting the change   *)
(* before the first pass, and exactly the requested number in every other  *)
(* case; it never executes fewer passes than requested.                    *)
(***************************************************************************)
Adjusted == w.mode = "Secureflip" /\ w.requested < 2

AdjustmentReports == Positions("print") \cap
    {k \in 1..Len(trace) : trace[k] = Msg("passes changed to 2")}

C6_PassesExecuted ==
    /\ st = "Done" =>
          /\ FlushesDone = (IF Adjusted THEN 2 ELSE w.requested)
          /\ Len(Events("seek")) = FlushesDone
          /\ FlushesDone >= w.requested
    /\ (st \notin {"Idle", "Entry"} /\ Adjusted) =>
          /\ Cardinality(AdjustmentReports) = 1
          /\ \A k \in AdjustmentReports, n \in 1..Len(trace) :
                IsIo(trace[n]) => k < n
    /\ (st \notin {"Idle", "Entry"} /\ ~Adjusted) => AdjustmentReports = {}

\* SecureFlip was requested with one pass and ran two
C6_Witness ==
    /\ st = "Done"
    /\ w.mode = "Secureflip"
    /\ w.requested = 1
    /\ FlushesDone = 2


(***************************************************************************)
(* C7.  In every pass of wipe_file, for every size, the writes start at    *)
(* offset 0 and follow one another at contiguous ascending offsets, each   *)
(* of 1..CHUNK bytes and only the last one shorter than CHUNK; written     *)
(* always lies in 0..size, and when the pass has streamed its bytes the    *)
(* lengths written add up to exactly size.                                 *)
(***************************************************************************)
Streamed(p) ==
    \/ p < w.pass
    \/ st \in {"Flushing", "Done"}
    \/ \E k \in 1..Len(trace) : trace[k][1] = "flush" /\ trace[k][2] = p

C7_ChunksCoverPass ==
    /\ 0 <= w.written
    /\ w.written <= w.size
    /\ st = "Streaming" =>
          /\ w.written = SumLen(WritesOf(w.pass))
          /\ w.cursor = w.written
    /\ \A p \in 1..w.pass :
          LET ws == WritesOf(p)
          IN  /\ \A k \in 1..Len(ws) :
                    /\ ws[k][4] = (IF k = 1 THEN 0 ELSE ws[k - 1][4] + ws[k - 1][5])
                    /\ 1 <= ws[k][5]
                    /\ ws[k][5] <= CHUNK
                    /\ ws[k][5] < CHUNK => k = Len(ws)
                    /\ ws[k][4] + ws[k][5] <= w.size
              /\ Streamed(p) => SumLen(ws) = w.size

\* the second pass over a target that ends in a short chunk has streamed
C7_Witness ==
    /\ st = "Flushing"
    /\ w.pass >= 2
    /\ w.size > CHUNK
    /\ w.size % CHUNK # 0
    /\ Len(WritesOf(w.pass)) >= 2

(***************************************************************************)
(* C8.  wipe_file goes through seek, writes and flush of pass 1, then of   *)
(* pass 2, and so on up to the last pass, skipping none: the seek and the  *)
(* writes of pass p+1 come only after the flush of pass p succeeded, a     *)
(* flush comes only when the pass has streamed size bytes, and Ok is       *)
(* returned only after the flush of the last pass succeeded.               *)
(***************************************************************************)
LastIo == Io[Len(Io)]

C8_PassOrder ==
    /\ Io # <<>> => (Io[1][1] = "seek" /\ Io[1][2] = 1)
    /\ \A k \in 1..(Len(Io) - 1) :
          LET a == Io[k]
              b == Io[k + 1]
          IN  /\ IoOk(a)
              /\ a[1] \in {"seek", "write"} =>
                    (b[1] \in {"write", "flush"} /\ b[2] = a[2])
              /\ a[1] = "flush" => (b[1] = "seek" /\ b[2] = a[2] + 1)
    /\ \A k \in 1..Len(Io) :
          /\ Io[k][2] <= w.passes
          /\ Io[k][1] = "flush" => SumLen(WritesOf(Io[k][2])) = w.size
    /\ st = "Seeking" =>
          IF w.pass = 1 THEN Io = <<>>
          ELSE Io # <<>> /\ LastIo[1] = "flush" /\ LastIo[2] = w.pass - 1 /\ IoOk(LastIo)
    /\ st \in {"Streaming", "Flushing"} =>
          (Io # <<>> /\ LastIo[1] \in {"seek", "write"} /\ LastIo[2] = w.pass /\ IoOk(LastIo))
    /\ st = "Done" =>
          IF w.passes = 0 THEN Io = <<>>
          ELSE Io # <<>> /\ LastIo[1] = "flush" /\ LastIo[2] = w.passes /\ IoOk(LastIo)

\* a wipe of three passes or more over more than one chunk returned Ok
C8_Witness ==
    /\ st = "Done"
    /\ w.passes >= 3
    /\ w.size > CHUNK
    /\ FlushesDone = w.passes

(***************************************************************************)
(* C9.  When a seek, a write or a flush fails, wipe_file returns an error  *)
(* at once: the failed call is the last one issued on the target, no later *)
(* pass starts, what completed passes and earlier chunks wrote stays as    *)
(* written, and the result is Err, not the Ok of a full completion.        *)
(***************************************************************************)
FailedCallIsLast ==
    /\ \A k \in 1..Len(Io) : ~IoOk(Io[k]) => k = Len(Io)
    /\ st = "Err" <=> (Io # <<>> /\ ~IoOk(LastIo))
    /\ st = "Done" => \A k \in 1..Len(Io) : IoOk(Io[k])

FailingStep ==
    (st # "Err" /\ st' = "Err") =>
        /\ w'.pass = w.pass
        /\ Len(target') = Len(target)
        /\ st \in {"Seeking", "Flushing"} => target' = target
        /\ \A k \in 1..Len(target) :
              (k <= w.cursor \/ k > w.cursor + ToWrite(w.size, w.written))
                  => target'[k] = target[k]

AfterFailure == st = "Err" => (st' = "Err" /\ target' = target /\ Io' = Io)

C9_FailureAborts ==
    []FailedCallIsLast /\ [][FailingStep /\ AfterFailure]_vars

\* a write of a later pass failed after an earlier chunk of that pass succeeded
C9_Witness ==
    /\ st = "Err"
    /\ w.pass >= 2
    /\ w.written > 0
    /\ LastIo[1] = "write"
    /\ ~IoOk(LastIo)

(***************************************************************************)
(* C11.  When the selection entered is not empty and is not the index of   *)
(* an enumerated device other than the system disk (it is the system       *)
(* disk, an index that was not enumerated, or not a number), the flow      *)
(* returns an error, selects no disk, asks for no confirmation phrase and  *)
(* opens no device for writing.                                            *)
(***************************************************************************)
\* the line names an enumerated device that is not the system disk
NamesCandidate(line) ==
    /\ IsSome(ParseU32(Trim(line)))
    /\ Unwrap(ParseU32(Trim(line))) \in Indices(disks) \ {system_disk}

C11_InvalidSelectionFails ==
    \A k \in SelectionsRead :
        (~AllWhite(trace[k][3]) /\ ~NamesCandidate(trace[k][3])) =>
            /\ pc = "ret"
            /\ result = "Err"
            /\ selected = NoneOpt
            /\ Events("ask") = <<>>
            /\ \A n \in 1..Len(trace) : trace[n][1] = "read" => n = k
            /\ NoDestructiveStep

\* the operator typed the index of the system disk, which was enumerated
\* next to another disk
C11_Witness ==
    /\ system_disk \in Indices(disks)
    /\ non_system # <<>>
    /\ \E k \in SelectionsRead :
          /\ IsSome(ParseU32(Trim(trace[k][3])))
          /\ Unwrap(ParseU32(Trim(trace[k][3]))) = system_disk
    /\ result = "Err"

(***************************************************************************)
(* C12.  The enumeration loop visits every index of 0..MAX_INDEX-1 in      *)
(* ascending order whatever earlier indices answered: an index that does   *)
(* not open is skipped without a message, one whose length query fails is  *)
(* reported and skipped, one whose length is <= 0 is left out, and in all  *)
(* three cases the loop goes on with the next index; the records are       *)
(* exactly the indices that opened, answered and reported a length > 0,    *)
(* in ascending order, each with that length.                              *)
(***************************************************************************)
\* what the loop has recorded so far
RecordsAscending ==
    /\ i \in 0..MAX_INDEX
    /\ \A k \in 1..Len(disks) :
          /\ disks[k].index \in 0..(i - 1)
          /\ disks[k].size_bytes > 0
          /\ k > 1 => disks[k - 1].index < disks[k].index

\* one step taken while the loop is running: the next index, or the end
ScanStep ==
    pc = "enum" =>
        IF pc' = "enum"
        THEN /\ i < MAX_INDEX
             /\ i' = i + 1
             /\ disks' = IF probe'[1] = "len" /\ probe'[2] > 0
                         THEN Append(disks, [index |-> i, size_bytes |-> probe'[2],
                                             is_system |-> (i = system_disk)])
                         ELSE disks
             /\ trace' = IF probe'[1] = "ioctlerr"
                         THEN Append(trace, Msg("failed to get size"))
                         ELSE trace
        ELSE /\ i = MAX_INDEX
             /\ disks' = disks

\* the list is not touched once the loop is over
ListKept == pc \notin {"idle", "enum"} => disks' = disks

C12_EnumerationScansAll ==
    [](pc = "enum" => RecordsAscending) /\ [][ScanStep /\ ListKept]_vars

\* the length query of device 0 failed, device 1 reported a length that is
\* not positive, and the scan still reached the end and recorded device 12
C12_Witness ==
    /\ pc = "enum"
    /\ i = MAX_INDEX
    /\ Msg("failed to get size") \in {trace[k] : k \in 1..Len(trace)}
    /\ Indices(disks) = {12}

(***************************************************************************)
(* C13.  The system disk resolved is the override, unchanged, whenever an  *)
(* override is given (detection is not run and the override is not         *)
(* compared with the devices found); without an override it is the device  *)
(* of the first extent reported for the boot volume; and when the volume   *)
(* does not open, the extent query fails or no extent is reported, it is   *)
(* 0 and the fallback message is printed.                                  *)
(***************************************************************************)
FallbackShown == \E k \in 1..Len(trace) : trace[k] = Msg("defaulting to PhysicalDrive0")

C13_SystemDiskResolution ==
    Events("arg") # <<>> =>
        LET arg == Events("arg")[1][2]
            det == Events("detect")
        IN  IF IsSome(arg)
            THEN /\ system_disk = Unwrap(arg)
                 /\ det = <<>>
                 /\ ~FallbackShown
            ELSE /\ Len(det) = 1
                 /\ IF det[1][2][1] = "extents" /\ det[1][2][2] >= 1
                    THEN system_disk = det[1][2][3] /\ ~FallbackShown
                    ELSE system_disk = 0 /\ FallbackShown

\* the boot volume answered with zero extents (the extent slot naming disk
\* 12): disk 0 was taken, with the fallback message
C13_Witness ==
    /\ Events("detect") # <<>>
    /\ Events("detect")[1][2] = <<"extents", 0, 12>>
    /\ system_disk = 0
    /\ FallbackShown
    /\ pc = "ret"

(***************************************************************************)
(* C14 as stated.  Every device, volume or file handle opened by device    *)
(* discovery or for the wipe is closed again when the operation that       *)
(* opened it returns, on the error paths as well: at no return point does  *)
(* the process still hold a handle.                                        *)
(***************************************************************************)
C14_HandlesClosedAtReturn ==
    (pc = "ret" \/ st \in {"Done", "Err"}) => handles = {}

(***************************************************************************)
(* C15 as stated.  confirm_wipe asks for YES: when the operator types      *)
(* exactly YES it returns Ok and the wipe goes on; when the operator types *)
(* anything else the process ends with status 0, the file is never opened  *)
(* for writing and nothing is written.                                     *)
(***************************************************************************)
YesRead == \E k \in 1..Len(trace) : trace[k][1] = "read" /\ trace[k][2] = "yes"

C15_YesConfirmsFileWipe ==
    YesRead =>
        IF Typed(input2) = Yes
        THEN pc \in {"fopen", "fwipe", "ret"}
        ELSE /\ pc = "exit"
             /\ result = "Exit0"
             /\ Events("open_file") = <<>>
             /\ Io = <<>>
             /\ target = <<>>

(***************************************************************************)
(* C16.  In file-wipe mode, when the target path has no metadata, is not a *)
(* regular file or has length 0, main reports it and returns before the    *)
(* confirmation prompt, and the file is never opened for writing; on every *)
(* path the file is opened for writing only after the metadata checks      *)
(* passed and confirm_wipe returned Ok.                                    *)
(***************************************************************************)
Unwipeable(meta) == meta[1] # "file" \/ meta[2] = 0

Prompted == \E k \in 1..Len(trace) : trace[k] = Msg("Type 'YES' to continue")

C16_FileChecksBeforeOpen ==
    /\ \A k \in Positions("metadata") :
          Unwipeable(trace[k][2]) =>
              /\ pc = "ret"
              /\ k < Len(trace)
              /\ \A n \in (k + 1)..Len(trace) : trace[n][1] = "print"
              /\ ~Prompted
              /\ ~YesRead
              /\ Events("open_file") = <<>>
              /\ Io = <<>>
              /\ handles = {}
              /\ target = <<>>
    /\ \A o \in Positions("open_file") :
          \E k \in Positions("metadata"), r \in Positions("read") :
              /\ k < r
              /\ r < o
              /\ ~Unwipeable(trace[k][2])
              /\ trace[r][2] = "yes"
              /\ Confirmed(trace[r][3], input2)
    /\ \A n \in 1..Len(trace) :
          IsIo(trace[n]) => \E o \in Positions("open_file") : o < n /\ IoOk(trace[o])

\* the target was an empty regular file: main reported it and returned
C16_Witness ==
    /\ \E k \in Positions("metadata") : trace[k][2] = <<"file", 0>>
    /\ Msg("File is empty") \in {trace[k] : k \in 1..Len(trace)}
    /\ pc = "ret"

(***************************************************************************)
(* C17 as stated.  Every pass of wipe_file that has streamed its bytes has *)
(* emitted a progress snapshot with bytes_written = size as its last       *)
(* emission, whether or not the 200 ms interval elapsed, for every size.   *)
(***************************************************************************)
\* the progress snapshots of pass p, in order
ProgressOf(p) == SelectSeq(trace, LAMBDA e : e[1] = "progress" /\ e[2] = p)

LastSnapshotIsFull(p) ==
    /\ ProgressOf(p) # <<>>
    /\ ProgressOf(p)[Len(ProgressOf(p))][3] = w.size

C17_EveryPassReportsFull ==
    \A p \in 1..w.pass : Streamed(p) => LastSnapshotIsFull(p)

(***************************************************************************)
(* C17, amended.  For every size > 0, every pass of wipe_file that has     *)
(* streamed its bytes has emitted a progress snapshot with bytes_written = *)
(* size as its last emission, right after its last write, whether or not   *)
(* the 200 ms interval elapsed; a pass over a target of size 0 writes no   *)
(* chunk and emits no snapshot.                                            *)
(***************************************************************************)
C17_NonEmptyPassReportsFull ==
    \A p \in 1..w.pass :
        /\ (Streamed(p) /\ w.size > 0) =>
              /\ LastSnapshotIsFull(p)
              /\ \E k \in 2..Len(trace) :
                    /\ trace[k] = <<"progress", p, w.size>>
                    /\ trace[k - 1][1] = "write"
                    /\ trace[k - 1][2] = p
                    /\ \A n \in (k + 1)..Len(trace) :
                          trace[n][1] \in {"write", "progress"} => trace[n][2] # p
        /\ w.size = 0 => ProgressOf(p) = <<>>
        /\ \A k \in 1..Len(ProgressOf(p)) : ProgressOf(p)[k][3] \in 1..w.size

\* a pass of several chunks during which the interval never elapsed has
\* streamed: its only snapshot is the full one
C17_Witness ==
    /\ st = "Flushing"
    /\ Len(WritesOf(w.pass)) >= 2
    /\ ProgressOf(w.pass) = <<<<"progress", w.pass, w.size>>>>

(***************************************************************************)
(* C18 as stated.  Every wipe the engine completes with Ok has executed at *)
(* least 1 pass for Zeros and Random and at least 2 for SecureFlip, so     *)
(* that every byte of [0, size) of a target of size > 0 has been           *)
(* overwritten at least once.                                              *)
(***************************************************************************)
\* the 0-based offset off lies in a write call that succeeded
Overwritten(off) ==
    \E k \in 1..Len(trace) :
        /\ trace[k][1] = "write"
        /\ IoOk(trace[k])
        /\ trace[k][4] <= off
        /\ off < trace[k][4] + trace[k][5]

C18_CompletedWipeHasMinimumPasses ==
    st = "Done" =>
        /\ FlushesDone >= (IF w.mode = "Secureflip" THEN 2 ELSE 1)
        /\ \A off \in 0..(w.size - 1) : Overwritten(off)

(***************************************************************************)
(* C19.  In every pass p of wipe_file with a fixed-pattern mode, every     *)
(* byte of every chunk written during pass p is the pattern of that pass:  *)
(* 0x00 for Zeros in every pass, 0x00 for SecureFlip when p is odd and     *)
(* 0xFF when p is even; the pattern does not depend on what an earlier     *)
(* pass left in the buffer.                                                *)
(***************************************************************************)
FixedPattern == w.mode \in {"Zeros", "Secureflip"}

PatternOf(m, p) == IF m = "Secureflip" /\ p % 2 = 0 THEN 255 ELSE 0

\* while a pass streams, the whole buffer holds the pattern of the pass
BufferHoldsPattern ==
    (FixedPattern /\ st \in {"Streaming", "Flushing"}) =>
        \A k \in 1..Len(w.buf) : w.buf[k] = PatternOf(w.mode, w.pass)

\* a write call puts the pattern of the pass on the bytes it reaches
WritePutsPattern ==
    (FixedPattern /\ st = "Streaming" /\ Len(Io') > Len(Io)) =>
        /\ LastIo'[1] = "write"
        /\ LastIo'[2] = w.pass
        /\ \A k \in (w.cursor + 1)..(w.cursor)' :
              target'[k] = PatternOf(w.mode, w.pass)
        /\ IoOk(LastIo') => (w.cursor)' = w.cursor + LastIo'[5]

C19_ChunksCarryPassPattern ==
    []BufferHoldsPattern /\ [][WritePutsPattern]_vars

\* the second pass of SecureFlip has written 0xFF over the zeros of the first
C19_Witness ==
    /\ w.mode = "Secureflip"
    /\ w.pass = 2
    /\ st = "Streaming"
    /\ w.written > 0
    /\ target[1] = 255
    /\ \E k \in 1..Len(trace) : trace[k][1] = "write" /\ trace[k][2] = 1

(***************************************************************************)
(* C20.  In Random mode every chunk write of every pass comes right after  *)
(* a fresh random fill of exactly the bytes about to be written, so that   *)
(* no chunk is written twice from one fill; in the fixed-pattern modes the *)
(* buffer is filled once per pass, before the first chunk, and is not      *)
(* filled again between chunks.                                            *)
(***************************************************************************)
FillsOf(p) == {k \in 1..Len(trace) : trace[k][1] = "fill" /\ trace[k][2] = p}

C20_FillDiscipline ==
    IF w.mode = "Random"
    THEN /\ \A k \in 1..Len(trace) :
               /\ trace[k][1] = "write" =>
                     (k > 1 /\ trace[k - 1] = <<"fill", trace[k][2], trace[k][5], "random">>)
               /\ trace[k][1] = "fill" =>
                     (k < Len(trace) /\ trace[k + 1][1] = "write" /\ trace[k][4] = "random")
    ELSE \A p \in 1..w.pass :
            /\ Cardinality(FillsOf(p)) <= 1
            /\ \A k \in FillsOf(p) :
                  /\ trace[k] = <<"fill", p, CHUNK, "pattern">>
                  /\ k > 1
                  /\ trace[k - 1][1] = "seek"
                  /\ trace[k - 1][2] = p
            /\ WritesOf(p) # <<>> => Cardinality(FillsOf(p)) = 1

\* a Random wipe has streamed its second pass in several chunks, each after
\* a fill of its own
C20_Witness ==
    /\ w.mode = "Random"
    /\ st = "Flushing"
    /\ w.pass >= 2
    /\ Len(WritesOf(w.pass)) >= 2
    /\ Cardinality(FillsOf(w.pass)) = Len(WritesOf(w.pass))

(***************************************************************************)
(* C21.  Within a pass of wipe_file a progress snapshot follows a chunk    *)
(* write if and only if at least 200 ms have passed since the last         *)
(* snapshot of that pass (since the start of the pass when there was       *)
(* none) or the chunk completed the pass; the throttle timestamp and the   *)
(* count of bytes written start afresh with each pass; and the             *)
(* bytes_written of the snapshots of one pass increase strictly.           *)
(***************************************************************************)
SnapshotsIncrease ==
    \A p \in 1..w.pass :
        \A k \in 2..Len(ProgressOf(p)) : ProgressOf(p)[k - 1][3] < ProgressOf(p)[k][3]

\* a step in which a chunk was written with success
ChunkWritten == st = "Streaming" /\ w'.written > w.written

SnapshotEmitted == Len(Events("progress"))' = Len(Events("progress")) + 1

EmitIffDue ==
    ChunkWritten =>
        LET dt == w'.elapsed - w.elapsed
            due == (w.since + dt >= THROTTLE) \/ (w'.written = w.size)
        IN  /\ Len(Events("progress"))' \in
                  {Len(Events("progress")), Len(Events("progress")) + 1}
            /\ SnapshotEmitted <=> due
            /\ SnapshotEmitted =>
                  /\ w'.since = 0
                  /\ ProgressOf(w.pass)'[Len(ProgressOf(w.pass)')][3] = w'.written
            /\ ~SnapshotEmitted => w'.since = w.since + dt

\* the clock and the counter of a pass start at zero
PassStartsAfresh ==
    (st = "Seeking" /\ st' = "Streaming") =>
        (w'.since = 0 /\ w'.elapsed = 0 /\ w'.written = 0)

C21_ProgressThrottle ==
    []SnapshotsIncrease /\ [][EmitIffDue /\ PassStartsAfresh]_vars

\* in a later pass a snapshot followed the first chunk, and none followed
\* the second although the pass had been running for more than 200 ms
C21_Witness ==
    /\ st = "Streaming"
    /\ w.pass >= 2
    /\ Len(WritesOf(w.pass)) = 2
    /\ ProgressOf(w.pass) = <<<<"progress", w.pass, CHUNK>>>>
    /\ w.elapsed >= THROTTLE
    /\ w.since < THROTTLE

(***************************************************************************)
(* C22.  Every ETA that wipe_file reports is a whole number of seconds,    *)
(* never negative: the bytes that remain divided by the throughput of the  *)
(* current pass (bytes written in the pass over the time the pass has      *)
(* run, at least one microsecond), cut to whole seconds; it is 0 in the    *)
(* snapshot whose bytes_written equals the size; and written never         *)
(* exceeds the size, so that size - written does not underflow.            *)
(***************************************************************************)
EtaPositions == Positions("eta")

EtaWellFormed ==
    /\ w.written <= w.size
    /\ \A k \in EtaPositions :
          /\ trace[k][3] \in Nat
          /\ k > 1
          /\ trace[k - 1][1] = "progress"
          /\ trace[k - 1][2] = trace[k][2]
          /\ trace[k - 1][3] = w.size => trace[k][3] = 0

\* the ETA of the snapshot of this step is remaining / throughput, cut
EtaIsRemainingOverThroughput ==
    (st = "Streaming" /\ Len(trace') > Len(trace) /\ trace'[Len(trace')][1] = "eta") =>
        LET eta == trace'[Len(trace')][3]
            secs == IF w'.elapsed < MIN_SECS THEN MIN_SECS ELSE w'.elapsed
            remain == w.size - w'.written
        IN  /\ w'.written > 0
            /\ remain >= 0
            /\ eta * w'.written * MICROS <= remain * secs
            /\ remain * secs < (eta + 1) * w'.written * MICROS

C22_EtaValue == []EtaWellFormed /\ [][EtaIsRemainingOverThroughput]_vars

\* a snapshot with bytes still to write and an ETA of one second or more
C22_Witness ==
    \E k \in EtaPositions :
        /\ trace[k][3] >= 1
        /\ trace[k - 1][3] < w.size

(***************************************************************************)
(* C23.  wipe_file terminates for every size, mode and pass count,         *)
(* provided each seek, write and flush returns: every successful write     *)
(* increases written by at least 1, every pass that has streamed its bytes *)
(* made ceil(size / CHUNK) writes, and the call ends in Done after the     *)
(* flush of the last pass or in an error at the first operation that       *)
(* failed.                                                                 *)
(***************************************************************************)
ChunksOfPass == (w.size + CHUNK - 1) \div CHUNK

WriteAdvances ==
    (st = "Streaming" /\ Len(Io') > Len(Io) /\ IoOk(LastIo')) =>
        /\ w'.written >= w.written + 1
        /\ w'.written <= w.size

PassesAreBounded ==
    \A p \in 1..w.pass : Streamed(p) => Len(WritesOf(p)) = ChunksOfPass

EndsInDoneOrFirstError ==
    /\ IF st = "Done"
       THEN /\ FlushesDone = w.passes
            /\ IF w.passes > 0
               THEN Io # <<>> /\ LastIo = <<"flush", w.passes, w.dev, TRUE>>
               ELSE Io = <<>>
       ELSE TRUE
    /\ IF st = "Err"
       THEN /\ Io # <<>>
            /\ ~IoOk(LastIo)
       ELSE TRUE
    /\ \A k \in 1..(Len(Io) - 1) : IoOk(Io[k])

C23_Terminates ==
    /\ []PassesAreBounded
    /\ []EndsInDoneOrFirstError
    /\ [][WriteAdvances]_vars
    /\ (st = "Entry") ~> (st \in {"Done", "Err"})

\* a call of several passes of two chunks each has returned Ok
C23_Witness ==
    /\ st = "Done"
    /\ w.passes >= 2
    /\ ChunksOfPass >= 2
    /\ \A p \in 1..w.passes : Len(WritesOf(p)) = ChunksOfPass

(***************************************************************************)
(* C24.  show_disk_size returns an error when the device cannot be opened, *)
(* when the length query fails, or when the reported length is negative or *)
(* otherwise invalid; it reports a size only for a device that opened and  *)
(* reported a valid length; and it takes a reported length for invalid in  *)
(* exactly the cases in which the enumeration leaves the device out.       *)
(***************************************************************************)
\* the enumeration's loop body pushes no record for this answer
EnumerationExcludes(index, outcome) == EnumBody(index, outcome) = disks

C24_SizeQueryValidity ==
    \A k \in Positions("query") :
        LET d == trace[k][2]
            o == trace[k][3]
            reported == k < Len(trace) /\ trace[k + 1][1] = "size"
        IN  /\ (o[1] \in {"nodev", "ioctlerr"} \/ o[2] < 0) =>
                  (result = "Err" /\ ~reported)
            /\ reported =>
                  (o[1] = "len" /\ o[2] >= 0 /\ trace[k + 1] = <<"size", d, o[2]>>)
            /\ (result = "Err") <=> EnumerationExcludes(d, o)

(***************************************************************************)
(* C25.  '[+] Disk wipe completed' (device flow) and '[+] Wipe completed'  *)
(* (file flow) are printed only after wipe_file returned Ok: never after a *)
(* seek, write or flush that failed, after a confirmation that was         *)
(* cancelled or after an open that failed; and in the device flow an I/O   *)
(* failure is returned to the caller as an error.                          *)
(***************************************************************************)
Completions ==
    {k \in 1..Len(trace) :
        trace[k] \in {Msg("[+] Disk wipe completed"), Msg("[+] Wipe completed")}}

OpensOf(ok) ==
    {k \in 1..Len(trace) :
        trace[k][1] \in {"open_rw", "open_file"} /\ trace[k][Len(trace[k])] = ok}

Aborts ==
    {k \in 1..Len(trace) :
        trace[k] \in {Msg("Aborted by user."),
                      Msg("Aborted by user (confirmation phrase did not match)."),
                      Msg("Error reading confirmation")}}

InDeviceFlow == Events("open_rw") # <<>>

C25_CompletionOnlyAfterOk ==
    /\ Completions # {} =>
          /\ Completions = {Len(trace)}
          /\ pc = "ret"
          /\ st = "Done"
          /\ \A k \in 1..Len(Io) : IoOk(Io[k])
          /\ FlushesDone = w.passes
          /\ OpensOf(FALSE) = {}
          /\ Cardinality(OpensOf(TRUE)) = 1
          /\ Aborts = {}
          /\ Positions("read") # {}
          /\ InDeviceFlow =>
                /\ trace[Len(trace)] = Msg("[+] Disk wipe completed")
                /\ result = "Ok"
                /\ PhraseMatches(input2, Phrase(Unwrap(selected).index))
          /\ ~InDeviceFlow =>
                /\ trace[Len(trace)] = Msg("[+] Wipe completed")
                /\ \E k \in Positions("read") :
                      trace[k][2] = "yes" /\ Confirmed(trace[k][3], input2)
    /\ (InDeviceFlow /\ pc = "ret" /\ st = "Err") => result = "Err"

\* the device flow has reported the completion of a wipe that wrote bytes
C25_Witness ==
    /\ InDeviceFlow
    /\ pc = "ret"
    /\ Completions = {Len(trace)}
    /\ SumLen(WritesOf(1)) = w.size
    /\ w.size > 0
    /\ result = "Ok"

(***************************************************************************)
(* C26.  In the whole-device wipe flow the list shown to the operator has  *)
(* a line for every enumerated device, with the protected marker on        *)
(* exactly the record whose index is the system-disk index (at most one    *)
(* record); the candidates are exactly the enumerated devices whose index  *)
(* differs from it: no other device is left out, and when the system disk  *)
(* was not enumerated every enumerated device is a candidate.              *)
(***************************************************************************)
ListShown == Events("shown")

Marked == {k \in 1..Len(ListShown) : ListShown[k][4]}

ListHeaderShown == \E k \in 1..Len(trace) : trace[k] = Msg("Available disks")

C26_ListAndCandidates ==
    ListHeaderShown =>
        /\ Len(ListShown) = Len(disks)
        /\ \A k \in 1..Len(disks) :
              /\ ListShown[k][2] = disks[k].index
              /\ ListShown[k][3] = disks[k].size_bytes
              /\ ListShown[k][4] <=> (disks[k].index = system_disk)
        /\ Cardinality(Marked) <= 1
        /\ Indices(non_system) = Indices(disks) \ {system_disk}
        /\ Len(non_system) = Cardinality(Indices(non_system))
        /\ \A k \in 1..Len(non_system) :
              \E j \in 1..Len(disks) : non_system[k] = disks[j]
        /\ system_disk \notin Indices(disks) => non_system = disks

\* the list showed the system disk, marked, next to a device that is a
\* candidate
C26_Witness ==
    /\ pc = "select"
    /\ Cardinality(Marked) = 1
    /\ Len(ListShown) >= 2
    /\ Len(non_system) = Len(ListShown) - 1

(***************************************************************************)
(* C27.  In the whole-device wipe flow, when the enumeration finds no      *)
(* device, or when every enumerated device is the system disk, the flow    *)
(* returns an error before any prompt is shown: no selection is read, no   *)
(* confirmation is asked and no device is opened for writing.              *)
(***************************************************************************)
EnumerationOver == pc \notin {"idle", "enum"}

NothingToWipe == \A k \in 1..Len(disks) : disks[k].index = system_disk

C27_NothingToWipeFails ==
    (EnumerationOver /\ NothingToWipe) =>
        /\ pc = "ret"
        /\ result = "Err"
        /\ \A k \in 1..Len(trace) : trace[k] # Msg("Enter the disk index")
        /\ Positions("read") = {}
        /\ Events("ask") = <<>>
        /\ selected = NoneOpt
        /\ NoDestructiveStep

\* the only device found was the system disk: it was listed with its mark
\* and the flow returned the error
C27_Witness ==
    /\ pc = "ret"
    /\ result = "Err"
    /\ Len(disks) = 1
    /\ disks[1].is_system
    /\ ListShown = <<<<"shown", system_disk, disks[1].size_bytes, TRUE>>>>
    /\ Positions("read") = {}

(***************************************************************************)
(* C28.  wipe_file of wipe.rs refines the variants it replaces: for the    *)
(* same size and pass count, in the modes Zeros and Random it issues the   *)
(* same sequence of seeks, writes (offset, length, and bytes for Zeros)    *)
(* and flushes as wipe_file of main.rs, in mode Zeros with one pass the    *)
(* same sequence as wipe_with_zeros, and it returns an error at the same   *)
(* operation when one fails.                                               *)
(***************************************************************************)
\* an operation of the engine without its pass and its device (the engine
\* seeks to SeekFrom::Start(0) only; where a seek led shows in the offset of
\* the writes after it)
EngineOp(e) ==
    IF e[1] = "seek" THEN <<"seek", 0, IoOk(e)>>
    ELSE IF e[1] = "write" THEN <<"write", e[4], e[5], e[6], IoOk(e)>>
    ELSE <<"flush", IoOk(e)>>

EngineOps == [k \in 1..Len(Io) |-> EngineOp(Io[k])]

\* the operation the environment failed, 0 when none
FailAt == IF Io # <<>> /\ ~IoOk(LastIo) THEN Len(Io) ELSE 0

EngineResult == IF st = "Done" THEN "Ok" ELSE "Err"

Refines(ops) ==
    /\ Len(Io) <= Len(ops)
    /\ EngineOps = SubSeq(Run(ops, FailAt)[1], 1, Len(Io))
    /\ st \in {"Done", "Err"} => <<EngineOps, EngineResult>> = Run(ops, FailAt)
    /\ (FailAt # 0) => st = "Err"

C28_RefinesEarlierVariants ==
    (st # "Idle" /\ w.mode \in {"Zeros", "Random"}) =>
        /\ Refines(MainWipeFile(w.size, w.mode, w.requested))
        /\ (w.mode = "Zeros" /\ w.requested = 1) => Refines(WipeWithZeros(w.size))

\* a Zeros wipe of several passes and chunks failed at a write of a later
\* pass, where the earlier variant fails too
C28_Witness ==
    /\ st = "Err"
    /\ w.mode = "Zeros"
    /\ w.pass >= 2
    /\ LastIo[1] = "write"
    /\ LastIo[4] > 0
    /\ Run(MainWipeFile(w.size, w.mode, w.requested), FailAt) = <<EngineOps, "Err">>

(***************************************************************************)
(* C29.  list_disks(max_index, override) completes normally for every      *)
(* max_index, 0 included: it then visits no index and reports that no disk *)
(* was found, and the upper bound max_index - 1 of the range it displays   *)
(* is computed without unsigned underflow.                                 *)
(***************************************************************************)
ListCalled == Events("arg") # <<>>

C29_ListCompletesForEveryMax ==
    ListCalled =>
        /\ pc # "panic"
        /\ result # "Panic"
        /\ \A k \in Positions("upto") :
              max_index >= 1 /\ trace[k][2] = U32(max_index - 1)
        /\ (pc = "ret" /\ max_index = 0) =>
              /\ result = "Ok"
              /\ Events("listed") = <<>>
              /\ \E k \in 1..Len(trace) : trace[k] = Msg("No physical disks found")

====
